---- MODULE Spec2Model ----
(***************************************************************************)
(* Item-level access-control list engine (AccessListConcept).              *)
(*                                                                         *)
(* The collection "accessList" is an ordered list of documents.  Every     *)
(* handler is an async function: it runs up to its next await, where one   *)
(* database operation executes atomically, and other handlers may run      *)
(* between two awaits.  A handler is therefore modelled as one action per  *)
(* database operation it awaits; the first action also invokes the         *)
(* handler, the last one also returns (or throws).                         *)
(*                                                                         *)
(* Two variants of the engine exist in the repository.  Definitions        *)
(* without suffix model server/concepts/accessList.ts (records addressed   *)
(* by their own _id); definitions with suffix 2 model the variant that     *)
(* stores a separate item field.                                           *)
(***************************************************************************)
EXTENDS Naturals, Sequences, FiniteSets

VARIABLES
  accessList,  \* the collection: the documents in order of insertion
  nextId,      \* how many ObjectIds the store has handed out
  calls,       \* per request slot: the handler in flight, its position,
               \* its arguments, the document it has read, the store it started on
  hist,        \* the last two calls that are over, with their results
  created,     \* per record, in order of creation: the owner handed to addItem
  ncalls,      \* how many calls have been made
  named        \* the triples <<record, role, user>> for which some call has
               \* named the user for the role of the record, kept for the
               \* users who may be the owner of the record
VARIABLES
  posts,       \* the collection of the posts: _id and author of each post
  friends,     \* the friendships: sets of two users
  requests,    \* the pending friend requests: pairs <<from, to>>
  route        \* the request the router is serving or has served last

\* the state of the engine, and the state of the application around it
engine == <<accessList, nextId, calls, hist, created, ncalls, named>>
app == <<posts, friends, requests, route>>

vars == <<accessList, nextId, calls, hist, created, ncalls, named,
          posts, friends, requests, route>>

----------------------------------------------------------------------------
(* Bounds                                                                  *)

\* number of records createOne may create in one behaviour
MaxRecords == 2
\* number of calls made in one behaviour when requests are served one at a time
MaxCalls == 2
\* number of requests the router serves in one behaviour
MaxRequests == 2

----------------------------------------------------------------------------
(* Identifiers                                                             *)

Users == {"u1", "u2"}

\* ObjectIds the store hands out, in order of creation
RecordIds == <<"r1", "r2", "r3", "r4">>

Ids == {RecordIds[n] : n \in 1..MaxRecords}

Range(s) == {s[k] : k \in DOMAIN s}

NoDups(s) == \A j, k \in DOMAIN s : s[j] = s[k] => j = k

Count(s, x) == Cardinality({k \in DOMAIN s : s[k] = x})

\* the initial editors / viewers lists handed to addItem: no user or one
InitLists == {<<>>} \cup {<<u>> : u \in Users}

\* an optional argument: <<>> is undefined, <<l>> is the list l
OptLists == {<<>>} \cup {<<l>> : l \in InitLists}

----------------------------------------------------------------------------
(* ObjectId and Array primitives                                           *)

\* ObjectId.toString(): the hex string of the id; two ids have the same
\* string iff they are the same id
toString(o) == <<"hex", o>>

\* Array.prototype.findIndex, 1-based; 0 stands for -1
findIndex(s, x) ==
  IF \E k \in DOMAIN s : s[k] = x
    THEN CHOOSE k \in DOMAIN s : s[k] = x /\ \A j \in 1..(k - 1) : s[j] # x
    ELSE 0

\* Array.prototype.includes
includes(s, x) == \E k \in DOMAIN s : s[k] = x

\* slice() followed by splice(k, 1): the list without its k-th element
splice(s, k) == [j \in 1..(Len(s) - 1) |-> IF j < k THEN s[j] ELSE s[j + 1]]

\* slice() followed by push(x)
push(s, x) == Append(s, x)

----------------------------------------------------------------------------
(* DocCollection: the document store                                       *)

ArrayFields == {"editors", "viewers"}

\* one field condition of a filter: a document without the field never
\* matches a non-null value; an array field matches a value it contains
FieldMatch(d, k, v) ==
  /\ k \in DOMAIN d
  /\ IF k \in ArrayFields THEN v \in Range(d[k]) ELSE d[k] = v

SimpleMatch(d, f) == \A k \in DOMAIN f : FieldMatch(d, k, f[k])

\* a filter is a record of field conditions; the field "or" holds $or
Matches(d, f) ==
  \A k \in DOMAIN f :
    IF k = "or" THEN \E j \in DOMAIN f[k] : SimpleMatch(d, f[k][j])
                ELSE FieldMatch(d, k, f[k])

FirstMatch(coll, f) ==
  IF \E k \in DOMAIN coll : Matches(coll[k], f)
    THEN CHOOSE k \in DOMAIN coll :
           Matches(coll[k], f) /\ \A j \in 1..(k - 1) : ~Matches(coll[j], f)
    ELSE 0

\* readOne: <<>> is null, <<d>> is the first matching document
readOne(coll, f) ==
  LET k == FirstMatch(coll, f) IN IF k = 0 THEN <<>> ELSE <<coll[k]>>

createOne(coll, d) == Append(coll, d)

\* updateOne: $set of the given fields on the first matching document,
\* nothing when no document matches
updateOne(coll, f, upd) ==
  LET m == FirstMatch(coll, f) IN
  IF m = 0 THEN coll
  ELSE [coll EXCEPT ![m] =
          [k \in DOMAIN @ \cup DOMAIN upd |->
             IF k \in DOMAIN upd THEN upd[k] ELSE @[k]]]

deleteOne(coll, f) ==
  LET m == FirstMatch(coll, f) IN IF m = 0 THEN coll ELSE splice(coll, m)

\* readMany: the matching documents, in the order of the collection
readMany(coll, f) == SelectSeq(coll, LAMBDA d : Matches(d, f))

\* an operation of the store that fails (the connection is lost, the
\* request is cancelled): the awaited promise rejects with this error
StoreError == "StoreError"

----------------------------------------------------------------------------
(* Authorization checks of accessList.ts: the outcome of one call          *)

Ok == "ok"
NotFoundError == "NotFoundError"
ItemOwnerNotMatchError == "ItemOwnerNotMatchError"
ItemViewerNotMatchError == "ItemViewerNotMatchError"
ItemEditorNotMatchError == "ItemEditorNotMatchError"


\* isOwner with the comparison of the owner inverted
isOwner_inverted(coll, user, _id) ==
  LET item == readOne(coll, [_id |-> _id]) IN
  IF item = <<>> THEN NotFoundError
  ELSE IF toString(item[1].owner) = toString(user) THEN ItemOwnerNotMatchError
  ELSE Ok

isOwner(coll, user, _id) ==
  LET item == readOne(coll, [_id |-> _id]) IN
  IF item = <<>> THEN NotFoundError
  ELSE IF toString(item[1].owner) # toString(user) THEN ItemOwnerNotMatchError
  ELSE Ok


\* isViewer that also lets the owner pass
isViewer_ownerPasses(coll, user, _id) ==
  LET item == readOne(coll, [_id |-> _id]) IN
  IF item = <<>> THEN NotFoundError
  ELSE IF /\ ~includes([k \in DOMAIN item[1].viewers |-> toString(item[1].viewers[k])],
                       toString(user))
          /\ toString(item[1].owner) # toString(user)
    THEN ItemViewerNotMatchError
  ELSE Ok

isViewer(coll, user, _id) ==
  LET item == readOne(coll, [_id |-> _id]) IN
  IF item = <<>> THEN NotFoundError
  ELSE IF ~includes([k \in DOMAIN item[1].viewers |-> toString(item[1].viewers[k])],
                    toString(user))
    THEN ItemViewerNotMatchError
  ELSE Ok

isEditor(coll, user, _id) ==
  LET item == readOne(coll, [_id |-> _id]) IN
  IF item = <<>> THEN NotFoundError
  ELSE IF ~includes([k \in DOMAIN item[1].editors |-> toString(item[1].editors[k])],
                    toString(user))
    THEN ItemEditorNotMatchError
  ELSE Ok

----------------------------------------------------------------------------
(* Calls in flight and the history of completed calls                      *)

\* the request slots: two handlers may be in flight at the same time
Procs == {1, 2}

Idle == [op |-> "idle", pc |-> "idle", _id |-> "none", user |-> "none",
         item |-> <<>>, pre |-> <<>>]

InFlight == {p \in Procs : calls[p].pc # "idle"}

\* a new call takes the lowest free slot
FreeSlot(p) ==
  /\ ncalls < MaxCalls
  /\ calls[p].pc = "idle" /\ \A q \in 1..(p - 1) : calls[q].pc # "idle"

Returned(m) == [kind |-> "return", msg |-> m]
Thrown(e) == [kind |-> "throw", msg |-> e]

Entry(op, _id, user, res, item, pre) ==
  [op |-> op, _id |-> _id, user |-> user, res |-> res, item |-> item, pre |-> pre]

\* the history keeps the last two calls that are over
Remember(e) ==
  IF Len(hist) < 2 THEN Append(hist, e) ELSE Append(Tail(hist), e)

\* the roles in which the document d lists its own owner
OwnerRoles(d) ==
  {<<d._id, role, d.owner>> : role \in {r \in ArrayFields : d.owner \in Range(d[r])}}

\* what the arguments of a call name: addItem names the owner for the lists
\* that hold it; setToViewer and setToEditor name their user for one role of
\* one record (of no interest when the record has another owner);
\* setToViewerAllItems names its user for the viewers of every record of the
\* owner (whom the call carries in _id)
Naming(op, _id, user) ==
  IF op = "addItem"
    THEN UNION {OwnerRoles(accessList'[k]) :
                  k \in {j \in DOMAIN accessList' : accessList'[j]._id = _id}}
  ELSE IF op \in {"setToViewer", "setToEditor"}
    THEN IF \E k \in DOMAIN accessList :
              accessList[k]._id = _id /\ accessList[k].owner # user
           THEN {}
           ELSE {<<_id, IF op = "setToViewer" THEN "viewers" ELSE "editors", user>>}
  ELSE IF op = "setToViewerAllItems" /\ _id = user
    THEN {<<accessList[k]._id, "viewers", user>> :
            k \in {j \in DOMAIN accessList : accessList[j].owner = user}}
  ELSE {}

\* the call of slot p is over: its result enters the history
Complete(p, res, item) ==
  /\ hist' = Remember(Entry(calls[p].op, calls[p]._id, calls[p].user, res, item,
                            calls[p].pre))
  /\ calls' = [calls EXCEPT ![p] = Idle]
  /\ UNCHANGED <<named, app>>

\* a call that is over after its first database operation
CompleteAtOnce(op, _id, user, res) ==
  /\ hist' = Remember(Entry(op, _id, user, res, <<>>, accessList))
  /\ named' = named \cup Naming(op, _id, user)
  /\ UNCHANGED <<calls, app>>

Begin(p, op, pc, _id, user, item) ==
  /\ calls' = [calls EXCEPT ![p] = [op |-> op, pc |-> pc, _id |-> _id, user |-> user,
                                    item |-> item, pre |-> accessList]]
  /\ named' = named \cup Naming(op, _id, user)
  /\ UNCHANGED app

Goto(p, pc, item) ==
  /\ calls' = [calls EXCEPT ![p].pc = pc, ![p].item = item]
  /\ UNCHANGED <<named, app>>

\* no request has reached the router
NoRoute == [name |-> "none", pc |-> "idle", user |-> "none", other |-> "none",
            pre |-> <<>>, res |-> <<>>, first |-> 0, n |-> 0]

\* the engine on its own: no posts, no friendships, no requests
NoApp ==
  /\ posts = <<>>
  /\ friends = {}
  /\ requests = {}
  /\ route = NoRoute

----------------------------------------------------------------------------
(* Handlers of accessList.ts                                               *)

\* the collection outlives the process: when the engine starts, the store
\* holds what earlier addItem calls have left, here nothing or one record
Init ==
  /\ \/ accessList = <<>>
     \/ \E owner \in Users, editors, viewers \in InitLists :
          accessList = createOne(<<>>, [_id |-> RecordIds[1], owner |-> owner,
                                        editors |-> editors, viewers |-> viewers])
  /\ nextId = Len(accessList)
  /\ created = [n \in 1..Len(accessList) |-> accessList[n].owner]
  /\ calls = [p \in Procs |-> Idle]
  /\ hist = <<>>
  /\ ncalls = 0
  /\ named = UNION {OwnerRoles(accessList[k]) : k \in DOMAIN accessList}
  /\ NoApp

addItem_createOne(p, owner, editors, viewers) ==
  /\ FreeSlot(p)
  /\ nextId < MaxRecords
  /\ LET _id == RecordIds[nextId + 1]
         e == IF editors = <<>> THEN <<>> ELSE editors[1]
         v == IF viewers = <<>> THEN <<>> ELSE viewers[1]
     IN /\ accessList' = createOne(accessList,
                           [_id |-> _id, owner |-> owner, editors |-> e, viewers |-> v])
        /\ created' = Append(created, owner)
        /\ Begin(p, "addItem", "readOne", _id, owner, <<>>)
  /\ nextId' = nextId + 1
  /\ ncalls' = ncalls + 1
  /\ UNCHANGED hist

addItem_readOne(p) ==
  /\ calls[p].op = "addItem" /\ calls[p].pc = "readOne"
  /\ Complete(p, Returned("Item successfully added!"),
              readOne(accessList, [_id |-> calls[p]._id]))
  /\ UNCHANGED <<accessList, nextId, created, ncalls>>


\* deleteItem with the empty filter: it deletes whatever document comes first
deleteItem_anyDocument(_id) ==
  /\ \E p \in Procs : FreeSlot(p)
  /\ accessList' = deleteOne(accessList, <<>>)
  /\ CompleteAtOnce("deleteItem", _id, "none", Returned("Item deleted successfully!"))
  /\ ncalls' = ncalls + 1
  /\ UNCHANGED <<nextId, created>>

deleteItem(_id) ==
  /\ \E p \in Procs : FreeSlot(p)
  /\ accessList' = deleteOne(accessList, [_id |-> _id])
  /\ CompleteAtOnce("deleteItem", _id, "none", Returned("Item deleted successfully!"))
  /\ ncalls' = ncalls + 1
  /\ UNCHANGED <<nextId, created>>


\* setToViewer without the shortcut for a user who is a viewer already
setToViewer_isViewer_noShortcut(p, _id, user) ==
  /\ FreeSlot(p)
  /\ Begin(p, "setToViewer", "readOne", _id, user, <<>>)
  /\ ncalls' = ncalls + 1
  /\ UNCHANGED <<accessList, nextId, created, hist>>

setToViewer_isViewer(p, _id, user) ==
  /\ FreeSlot(p)
  /\ IF isViewer(accessList, user, _id) = Ok
       THEN CompleteAtOnce("setToViewer", _id, user, Returned("is already a viewer of"))
       ELSE /\ Begin(p, "setToViewer", "readOne", _id, user, <<>>)
            /\ UNCHANGED hist
  /\ ncalls' = ncalls + 1
  /\ UNCHANGED <<accessList, nextId, created>>


\* setToViewer that reports success instead of throwing for a missing record
setToViewer_readOne_noThrow(p) ==
  /\ calls[p].op = "setToViewer" /\ calls[p].pc = "readOne"
  /\ LET item == readOne(accessList, [_id |-> calls[p]._id]) IN
       IF item = <<>>
         THEN Complete(p, Returned("Viewers successfully updated!"), <<>>)
         ELSE Goto(p, "updateOne", item) /\ UNCHANGED hist
  /\ UNCHANGED <<accessList, nextId, created, ncalls>>

setToViewer_readOne(p) ==
  /\ calls[p].op = "setToViewer" /\ calls[p].pc = "readOne"
  /\ LET item == readOne(accessList, [_id |-> calls[p]._id]) IN
       IF item = <<>>
         THEN Complete(p, Thrown(NotFoundError), <<>>)
         ELSE Goto(p, "updateOne", item) /\ UNCHANGED hist
  /\ UNCHANGED <<accessList, nextId, created, ncalls>>


\* setToViewer that writes the user into the owner field as well
setToViewer_updateOne_setsOwner(p) ==
  /\ calls[p].op = "setToViewer" /\ calls[p].pc = "updateOne"
  /\ LET newViewers == push(calls[p].item[1].viewers, calls[p].user) IN
       accessList' = updateOne(accessList, [_id |-> calls[p]._id],
                               [viewers |-> newViewers, owner |-> calls[p].user])
  /\ Complete(p, Returned("Viewers successfully updated!"), <<>>)
  /\ UNCHANGED <<nextId, created, ncalls>>

\* setToViewer whose update inserts the record it has read when the store
\* holds no such record any more (an upsert)
setToViewer_updateOne_upsert(p) ==
  /\ calls[p].op = "setToViewer" /\ calls[p].pc = "updateOne"
  /\ LET newViewers == push(calls[p].item[1].viewers, calls[p].user) IN
       accessList' =
         IF FirstMatch(accessList, [_id |-> calls[p]._id]) = 0
           THEN createOne(accessList, [calls[p].item[1] EXCEPT !.viewers = newViewers])
           ELSE updateOne(accessList, [_id |-> calls[p]._id], [viewers |-> newViewers])
  /\ Complete(p, Returned("Viewers successfully updated!"), <<>>)
  /\ UNCHANGED <<nextId, created, ncalls>>

setToViewer_updateOne(p) ==
  /\ calls[p].op = "setToViewer" /\ calls[p].pc = "updateOne"
  /\ LET newViewers == push(calls[p].item[1].viewers, calls[p].user) IN
       accessList' = updateOne(accessList, [_id |-> calls[p]._id],
                               [viewers |-> newViewers])
  /\ Complete(p, Returned("Viewers successfully updated!"), <<>>)
  /\ UNCHANGED <<nextId, created, ncalls>>

setToEditor_isEditor(p, _id, user) ==
  /\ FreeSlot(p)
  /\ IF isEditor(accessList, user, _id) = Ok
       THEN CompleteAtOnce("setToEditor", _id, user, Returned("is already an editor of"))
       ELSE /\ Begin(p, "setToEditor", "readOne", _id, user, <<>>)
            /\ UNCHANGED hist
  /\ ncalls' = ncalls + 1
  /\ UNCHANGED <<accessList, nextId, created>>

setToEditor_readOne(p) ==
  /\ calls[p].op = "setToEditor" /\ calls[p].pc = "readOne"
  /\ LET item == readOne(accessList, [_id |-> calls[p]._id]) IN
       IF item = <<>>
         THEN Complete(p, Thrown(NotFoundError), <<>>)
         ELSE Goto(p, "updateOne", item) /\ UNCHANGED hist
  /\ UNCHANGED <<accessList, nextId, created, ncalls>>


\* setToEditor that writes back the whole record it has read
setToEditor_updateOne_wholeRecord(p) ==
  /\ calls[p].op = "setToEditor" /\ calls[p].pc = "updateOne"
  /\ LET newEditors == push(calls[p].item[1].editors, calls[p].user) IN
       accessList' = updateOne(accessList, [_id |-> calls[p]._id],
                               [editors |-> newEditors,
                                viewers |-> calls[p].item[1].viewers])
  /\ Complete(p, Returned("Editors successfully updated!"), <<>>)
  /\ UNCHANGED <<nextId, created, ncalls>>

setToEditor_updateOne(p) ==
  /\ calls[p].op = "setToEditor" /\ calls[p].pc = "updateOne"
  /\ LET newEditors == push(calls[p].item[1].editors, calls[p].user) IN
       accessList' = updateOne(accessList, [_id |-> calls[p]._id],
                               [editors |-> newEditors])
  /\ Complete(p, Returned("Editors successfully updated!"), <<>>)
  /\ UNCHANGED <<nextId, created, ncalls>>


\* removeAccess that looks the record up by _id alone
removeAccess_readOne_noRoleFilter(p, _id, user) ==
  /\ FreeSlot(p)
  /\ LET item == readOne(accessList, [_id |-> _id])
     IN IF item = <<>>
          THEN CompleteAtOnce("removeAccess", _id, user,
                              Returned("is already restricted from seeing"))
          ELSE /\ Begin(p, "removeAccess", "updateOne", _id, user, item)
               /\ UNCHANGED hist
  /\ ncalls' = ncalls + 1
  /\ UNCHANGED <<accessList, nextId, created>>

removeAccess_readOne(p, _id, user) ==
  /\ FreeSlot(p)
  /\ LET item == readOne(accessList,
                   [_id |-> _id, or |-> <<[viewers |-> user], [editors |-> user]>>])
     IN IF item = <<>>
          THEN CompleteAtOnce("removeAccess", _id, user,
                              Returned("is already restricted from seeing"))
          ELSE /\ Begin(p, "removeAccess", "updateOne", _id, user, item)
               /\ UNCHANGED hist
  /\ ncalls' = ncalls + 1
  /\ UNCHANGED <<accessList, nextId, created>>


\* removeAccess without the branch that removes an editor
removeAccess_updateOne_viewersOnly(p) ==
  /\ calls[p].op = "removeAccess" /\ calls[p].pc = "updateOne"
  /\ LET item == calls[p].item[1]
         userViewerIndex == findIndex(item.viewers, calls[p].user)
     IN IF userViewerIndex # 0
          THEN /\ accessList' = updateOne(accessList, [_id |-> calls[p]._id],
                                  [viewers |-> splice(item.viewers, userViewerIndex)])
               /\ Complete(p, Returned("Viewers successfully updated!"), <<>>)
          ELSE /\ accessList' = accessList
               /\ Complete(p, Returned("undefined"), <<>>)
  /\ UNCHANGED <<nextId, created, ncalls>>

removeAccess_updateOne(p) ==
  /\ calls[p].op = "removeAccess" /\ calls[p].pc = "updateOne"
  /\ LET item == calls[p].item[1]
         userString == toString(calls[p].user)
         userViewerIndex ==
           findIndex([k \in DOMAIN item.viewers |-> toString(item.viewers[k])], userString)
         userEditorIndex ==
           findIndex([k \in DOMAIN item.editors |-> toString(item.editors[k])], userString)
     IN IF userViewerIndex # 0
          THEN /\ accessList' = updateOne(accessList, [_id |-> calls[p]._id],
                                  [viewers |-> splice(item.viewers, userViewerIndex)])
               /\ Complete(p, Returned("Viewers successfully updated!"), <<>>)
        ELSE IF userEditorIndex # 0
          THEN /\ accessList' = updateOne(accessList, [_id |-> calls[p]._id],
                                  [editors |-> splice(item.editors, userEditorIndex)])
               /\ Complete(p, Returned("Viewers successfully updated!"), <<>>)
        ELSE /\ accessList' = accessList
             /\ Complete(p, Returned("undefined"), <<>>)
  /\ UNCHANGED <<nextId, created, ncalls>>

\* a burst of requests: every request slot serves one request
Burst == ncalls < Cardinality(Procs)

\* requests are served concurrently: the handlers interleave at their awaits
Next ==
  \/ \E p \in Procs, owner \in Users, editors, viewers \in OptLists :
       Burst /\ addItem_createOne(p, owner, editors, viewers)
  \/ \E p \in Procs : addItem_readOne(p)
  \/ \E _id \in Ids : Burst /\ deleteItem(_id)
  \/ \E p \in Procs, _id \in Ids, user \in Users :
       Burst /\ setToViewer_isViewer(p, _id, user)
  \/ \E p \in Procs : setToViewer_readOne(p)
  \/ \E p \in Procs : setToViewer_updateOne(p)
  \/ \E p \in Procs, _id \in Ids, user \in Users :
       Burst /\ setToEditor_isEditor(p, _id, user)
  \/ \E p \in Procs : setToEditor_readOne(p)
  \/ \E p \in Procs : setToEditor_updateOne(p)
  \/ \E p \in Procs, _id \in Ids, user \in Users :
       Burst /\ removeAccess_readOne(p, _id, user)
  \/ \E p \in Procs : removeAccess_updateOne(p)

\* requests are served one at a time: a handler is invoked only when no
\* other handler is in flight
NextSeq ==
  \/ \E owner \in Users, editors, viewers \in OptLists :
       InFlight = {} /\ addItem_createOne(1, owner, editors, viewers)
  \/ addItem_readOne(1)
  \/ \E _id \in Ids : InFlight = {} /\ deleteItem(_id)
  \/ \E _id \in Ids, user \in Users : InFlight = {} /\ setToViewer_isViewer(1, _id, user)
  \/ setToViewer_readOne(1)
  \/ setToViewer_updateOne(1)
  \/ \E _id \in Ids, user \in Users : InFlight = {} /\ setToEditor_isEditor(1, _id, user)
  \/ setToEditor_readOne(1)
  \/ setToEditor_updateOne(1)
  \/ \E _id \in Ids, user \in Users : InFlight = {} /\ removeAccess_readOne(1, _id, user)
  \/ removeAccess_updateOne(1)

Spec == Init /\ [][Next]_vars

SpecSeq == Init /\ [][NextSeq]_vars

----------------------------------------------------------------------------
(* The variant that stores an item field: authorization checks             *)

\* ObjectIds of the protected items; the caller creates the item first, so
\* the n-th addItem call brings the n-th item id
ItemIds == <<"i1", "i2", "i3", "i4">>

Items == {ItemIds[n] : n \in 1..MaxRecords}

\* the ids a caller may hand to a handler: ids of items and ids of records
IdArgs == Items \cup Ids

AccessRestrictedError == "AccessRestrictedError"

isOwner2(coll, user, itemId) ==
  LET item == readOne(coll, [item |-> itemId]) IN
  IF item = <<>> THEN NotFoundError
  ELSE IF toString(item[1].owner) # toString(user) THEN ItemOwnerNotMatchError
  ELSE Ok

isViewer2(coll, user, itemId) ==
  LET item == readOne(coll, [itemId |-> itemId]) IN
  IF item = <<>> THEN NotFoundError
  ELSE IF ~includes([k \in DOMAIN item[1].viewers |-> toString(item[1].viewers[k])],
                    toString(user))
    THEN ItemViewerNotMatchError
  ELSE Ok

isEditor2(coll, user, itemId) ==
  LET item == readOne(coll, [itemId |-> itemId]) IN
  IF item = <<>> THEN NotFoundError
  ELSE IF ~includes([k \in DOMAIN item[1].editors |-> toString(item[1].editors[k])],
                    toString(user))
    THEN ItemEditorNotMatchError
  ELSE Ok

hasItemAccess(item, user) ==
  LET userString == toString(user)
      isOwnerOfItem == toString(item.owner) = userString
      isViewerOfItem ==
        includes([k \in DOMAIN item.viewers |-> toString(item.viewers[k])], userString)
      isEditorOfItem ==
        includes([k \in DOMAIN item.editors |-> toString(item.editors[k])], userString)
  IN isOwnerOfItem \/ isViewerOfItem \/ isEditorOfItem

canView(coll, user, itemId) ==
  LET item == readOne(coll, [itemId |-> itemId]) IN
  IF item = <<>> THEN NotFoundError
  ELSE IF ~hasItemAccess(item[1], user) THEN AccessRestrictedError
  ELSE Ok

----------------------------------------------------------------------------
(* The variant that stores an item field: handlers                         *)

\* the engine with the item field starts on an empty collection
Init2 ==
  /\ accessList = <<>>
  /\ nextId = 0
  /\ created = <<>>
  /\ calls = [p \in Procs |-> Idle]
  /\ hist = <<>>
  /\ ncalls = 0
  /\ named = {}
  /\ NoApp

addItem2_createOne(p, owner, editors, viewers) ==
  /\ FreeSlot(p)
  /\ nextId < MaxRecords
  /\ LET _id == RecordIds[nextId + 1]
         item == ItemIds[nextId + 1]
         e == IF editors = <<>> THEN <<>> ELSE editors[1]
         v == IF viewers = <<>> THEN <<>> ELSE viewers[1]
     IN /\ accessList' = createOne(accessList,
                           [_id |-> _id, item |-> item, owner |-> owner,
                            editors |-> e, viewers |-> v])
        /\ created' = Append(created, owner)
        /\ Begin(p, "addItem", "readOne", _id, owner, <<>>)
  /\ nextId' = nextId + 1
  /\ ncalls' = ncalls + 1
  /\ UNCHANGED hist

addItem2_readOne(p) ==
  /\ calls[p].op = "addItem" /\ calls[p].pc = "readOne"
  /\ Complete(p, Returned("Item successfully added!"),
              readOne(accessList, [_id |-> calls[p]._id]))
  /\ UNCHANGED <<accessList, nextId, created, ncalls>>

deleteItem2(item) ==
  /\ \E p \in Procs : FreeSlot(p)
  /\ accessList' = deleteOne(accessList, [item |-> item])
  /\ CompleteAtOnce("deleteItem", item, "none", Returned("Item deleted successfully!"))
  /\ ncalls' = ncalls + 1
  /\ UNCHANGED <<nextId, created>>

setToViewer2_isViewer(p, _id, user) ==
  /\ FreeSlot(p)
  /\ IF isViewer2(accessList, user, _id) = Ok
       THEN CompleteAtOnce("setToViewer", _id, user, Returned("is already a viewer of"))
       ELSE /\ Begin(p, "setToViewer", "readOne", _id, user, <<>>)
            /\ UNCHANGED hist
  /\ ncalls' = ncalls + 1
  /\ UNCHANGED <<accessList, nextId, created>>

setToViewer2_readOne(p) ==
  /\ calls[p].op = "setToViewer" /\ calls[p].pc = "readOne"
  /\ LET item == readOne(accessList, [_id |-> calls[p]._id]) IN
       IF item = <<>>
         THEN Complete(p, Thrown(NotFoundError), <<>>)
         ELSE Goto(p, "updateOne", item) /\ UNCHANGED hist
  /\ UNCHANGED <<accessList, nextId, created, ncalls>>

setToViewer2_updateOne(p) ==
  /\ calls[p].op = "setToViewer" /\ calls[p].pc = "updateOne"
  /\ LET newViewers == push(calls[p].item[1].viewers, calls[p].user) IN
       accessList' = updateOne(accessList, [_id |-> calls[p]._id],
                               [viewers |-> newViewers])
  /\ Complete(p, Returned("Viewers successfully updated!"), <<>>)
  /\ UNCHANGED <<nextId, created, ncalls>>

setToEditor2_isEditor(p, _id, user) ==
  /\ FreeSlot(p)
  /\ IF isEditor2(accessList, user, _id) = Ok
       THEN CompleteAtOnce("setToEditor", _id, user, Returned("is already an editor of"))
       ELSE /\ Begin(p, "setToEditor", "readOne", _id, user, <<>>)
            /\ UNCHANGED hist
  /\ ncalls' = ncalls + 1
  /\ UNCHANGED <<accessList, nextId, created>>

setToEditor2_readOne(p) ==
  /\ calls[p].op = "setToEditor" /\ calls[p].pc = "readOne"
  /\ LET item == readOne(accessList, [_id |-> calls[p]._id]) IN
       IF item = <<>>
         THEN Complete(p, Thrown(NotFoundError), <<>>)
         ELSE Goto(p, "updateOne", item) /\ UNCHANGED hist
  /\ UNCHANGED <<accessList, nextId, created, ncalls>>

setToEditor2_updateOne(p) ==
  /\ calls[p].op = "setToEditor" /\ calls[p].pc = "updateOne"
  /\ LET newEditors == push(calls[p].item[1].editors, calls[p].user) IN
       accessList' = updateOne(accessList, [_id |-> calls[p]._id],
                               [editors |-> newEditors])
  /\ Complete(p, Returned("Editors successfully updated!"), <<>>)
  /\ UNCHANGED <<nextId, created, ncalls>>

removeAccess2_readOne(p, itemId, user) ==
  /\ FreeSlot(p)
  /\ LET item == readOne(accessList,
                   [itemId |-> itemId, or |-> <<[viewers |-> user], [editors |-> user]>>])
     IN IF item = <<>>
          THEN CompleteAtOnce("removeAccess", itemId, user,
                              Returned("is already restricted from seeing"))
          ELSE /\ Begin(p, "removeAccess", "updateOne", itemId, user, item)
               /\ UNCHANGED hist
  /\ ncalls' = ncalls + 1
  /\ UNCHANGED <<accessList, nextId, created>>

removeAccess2_updateOne(p) ==
  /\ calls[p].op = "removeAccess" /\ calls[p].pc = "updateOne"
  /\ LET item == calls[p].item[1]
         userString == toString(calls[p].user)
         userViewerIndex ==
           findIndex([k \in DOMAIN item.viewers |-> toString(item.viewers[k])], userString)
         userEditorIndex ==
           findIndex([k \in DOMAIN item.editors |-> toString(item.editors[k])], userString)
     IN IF userViewerIndex # 0
          THEN /\ accessList' = updateOne(accessList, [itemId |-> calls[p]._id],
                                  [viewers |-> splice(item.viewers, userViewerIndex)])
               /\ Complete(p, Returned("Viewers successfully updated!"), <<>>)
          ELSE /\ accessList' = updateOne(accessList, [itemId |-> calls[p]._id],
                                  [editors |-> splice(item.editors, userEditorIndex)])
               /\ Complete(p, Returned("Editors successfully updated!"), <<>>)
  /\ UNCHANGED <<nextId, created, ncalls>>

getItemsByOwner(coll, owner) == readMany(coll, [owner |-> owner])

\* setToViewerAllItems up to its first updateOne: the loop skips the records
\* that list the user as a viewer without awaiting anything, so the call
\* carries on with the records it has yet to update
setToViewerAllItems_getItemsByOwner(p, owner, user) ==
  /\ FreeSlot(p)
  /\ LET userString == toString(user)
         items == getItemsByOwner(accessList, owner)
         todo == SelectSeq(items, LAMBDA item :
                   ~includes([k \in DOMAIN item.viewers |-> toString(item.viewers[k])],
                             userString))
     IN IF todo = <<>>
          THEN CompleteAtOnce("setToViewerAllItems", owner, user,
                              Returned("Access to all items successfully updated!"))
          ELSE /\ Begin(p, "setToViewerAllItems", "updateOne", owner, user, todo)
               /\ UNCHANGED hist
  /\ ncalls' = ncalls + 1
  /\ UNCHANGED <<accessList, nextId, created>>


\* setToViewerAllItems that puts the owner of the record into its viewers too
setToViewerAllItems_updateOne_addsOwner(p, k) ==
  /\ calls[p].op = "setToViewerAllItems" /\ calls[p].pc = "updateOne"
  /\ k \in DOMAIN calls[p].item
  /\ LET item == calls[p].item[k]
         rest == splice(calls[p].item, k)
         newViewers == push(push(item.viewers, calls[p].user), item.owner)
     IN /\ accessList' = updateOne(accessList, [_id |-> item._id],
                                   [viewers |-> newViewers])
        /\ IF rest = <<>>
             THEN Complete(p, Returned("Access to all items successfully updated!"), <<>>)
             ELSE Goto(p, "updateOne", rest) /\ UNCHANGED hist
  /\ UNCHANGED <<nextId, created, ncalls>>

\* setToViewerAllItems that updates the records of other owners as well
setToViewerAllItems_updateOne_anyOwner(p, k) ==
  /\ calls[p].op = "setToViewerAllItems" /\ calls[p].pc = "updateOne"
  /\ k \in DOMAIN calls[p].item
  /\ LET item == calls[p].item[k]
         rest == splice(calls[p].item, k)
         newViewers == push(item.viewers, calls[p].user)
     IN /\ accessList' =
             [j \in DOMAIN accessList |->
                IF accessList[j]._id = item._id
                     \/ calls[p].user \notin Range(accessList[j].viewers)
                  THEN [accessList[j] EXCEPT !.viewers = push(@, calls[p].user)]
                  ELSE accessList[j]]
        /\ IF rest = <<>>
             THEN Complete(p, Returned("Access to all items successfully updated!"), <<>>)
             ELSE Goto(p, "updateOne", rest) /\ UNCHANGED hist
  /\ UNCHANGED <<nextId, created, ncalls>>

\* one turn of the loop of setToViewerAllItems: the updateOne of the k-th of
\* the records left. getItems sorts by dateUpdated, which the records of the
\* model do not carry, so the loop may take the records in any order.
setToViewerAllItems_updateOne(p, k) ==
  /\ calls[p].op = "setToViewerAllItems" /\ calls[p].pc = "updateOne"
  /\ k \in DOMAIN calls[p].item
  /\ LET item == calls[p].item[k]
         rest == splice(calls[p].item, k)
         newViewers == push(item.viewers, calls[p].user)
     IN /\ accessList' = updateOne(accessList, [_id |-> item._id],
                                   [viewers |-> newViewers])
        /\ IF rest = <<>>
             THEN Complete(p, Returned("Access to all items successfully updated!"), <<>>)
             ELSE Goto(p, "updateOne", rest) /\ UNCHANGED hist
  /\ UNCHANGED <<nextId, created, ncalls>>


\* a failing updateOne that undoes the updates the loop has made
setToViewerAllItems_updateOne_rollsBack(p) ==
  /\ calls[p].op = "setToViewerAllItems" /\ calls[p].pc = "updateOne"
  /\ accessList' = calls[p].pre
  /\ Complete(p, Thrown(StoreError), calls[p].item)
  /\ UNCHANGED <<nextId, created, ncalls>>

\* the awaited updateOne rejects: nothing catches the error, the loop ends
\* there and the call throws; the history keeps the records left to update
setToViewerAllItems_updateOne_rejects(p) ==
  /\ calls[p].op = "setToViewerAllItems" /\ calls[p].pc = "updateOne"
  /\ Complete(p, Thrown(StoreError), calls[p].item)
  /\ UNCHANGED <<accessList, nextId, created, ncalls>>

removeAccessAllItems_readMany(p, owner, user) ==
  /\ FreeSlot(p)
  /\ LET items == readMany(accessList,
                    [owner |-> owner, or |-> <<[viewers |-> user], [editors |-> user]>>])
     IN IF items = <<>>
          THEN CompleteAtOnce("removeAccessAllItems", owner, user,
                              Returned("Access for user was successfully updated!"))
          ELSE /\ Begin(p, "removeAccessAllItems", "updateOne", owner, user, items)
               /\ UNCHANGED hist
  /\ ncalls' = ncalls + 1
  /\ UNCHANGED <<accessList, nextId, created>>

\* one turn of the loop of removeAccessAllItems
removeAccessAllItems_updateOne(p) ==
  /\ calls[p].op = "removeAccessAllItems" /\ calls[p].pc = "updateOne"
  /\ LET item == Head(calls[p].item)
         rest == Tail(calls[p].item)
         userString == toString(calls[p].user)
         userViewerIndex ==
           findIndex([k \in DOMAIN item.viewers |-> toString(item.viewers[k])], userString)
         userEditorIndex ==
           findIndex([k \in DOMAIN item.editors |-> toString(item.editors[k])], userString)
     IN /\ IF userViewerIndex # 0
             THEN accessList' = updateOne(accessList, [_id |-> item._id],
                                  [viewers |-> splice(item.viewers, userViewerIndex)])
             ELSE accessList' = updateOne(accessList, [_id |-> item._id],
                                  [editors |-> splice(item.editors, userEditorIndex)])
        /\ IF rest = <<>>
             THEN Complete(p, Returned("Access for user was successfully updated!"), <<>>)
             ELSE Goto(p, "updateOne", rest) /\ UNCHANGED hist
  /\ UNCHANGED <<nextId, created, ncalls>>

removeAccessAllItems_updateOne_rejects(p) ==
  /\ calls[p].op = "removeAccessAllItems" /\ calls[p].pc = "updateOne"
  /\ Complete(p, Thrown(StoreError), calls[p].item)
  /\ UNCHANGED <<accessList, nextId, created, ncalls>>

\* the engine with the item field, requests served concurrently.
\* removeAccess2_updateOne is no step of it: removeAccess2_readOne looks for
\* a field itemId that no document has, finds nothing and returns at once.
Next2 ==
  \/ \E p \in Procs, owner \in Users, editors, viewers \in OptLists :
       Burst /\ addItem2_createOne(p, owner, editors, viewers)
  \/ \E p \in Procs : addItem2_readOne(p)
  \/ \E item \in Items : Burst /\ deleteItem2(item)
  \/ \E p \in Procs, _id \in IdArgs, user \in Users :
       Burst /\ setToViewer2_isViewer(p, _id, user)
  \/ \E p \in Procs : setToViewer2_readOne(p)
  \/ \E p \in Procs : setToViewer2_updateOne(p)
  \/ \E p \in Procs, _id \in IdArgs, user \in Users :
       Burst /\ setToEditor2_isEditor(p, _id, user)
  \/ \E p \in Procs : setToEditor2_readOne(p)
  \/ \E p \in Procs : setToEditor2_updateOne(p)
  \/ \E p \in Procs, itemId \in IdArgs, user \in Users :
       Burst /\ removeAccess2_readOne(p, itemId, user)
  \/ \E p \in Procs, owner \in Users, user \in Users :
       Burst /\ setToViewerAllItems_getItemsByOwner(p, owner, user)
  \/ \E p \in Procs, k \in 1..MaxRecords : setToViewerAllItems_updateOne(p, k)
  \/ \E p \in Procs : setToViewerAllItems_updateOne_rejects(p)
  \/ \E p \in Procs, owner \in Users, user \in Users :
       Burst /\ removeAccessAllItems_readMany(p, owner, user)
  \/ \E p \in Procs : removeAccessAllItems_updateOne(p)
  \/ \E p \in Procs : removeAccessAllItems_updateOne_rejects(p)

Spec2 == Init2 /\ [][Next2]_vars

\* the collection outlives the process: the engine with the item field
\* starts on what earlier addItem calls have left, here nothing, one record
\* or two records; the second record came without editors
Init2Stored ==
  /\ \E n \in 0..2 :
       \E owners \in [1..n -> Users], editors, viewers \in [1..n -> InitLists] :
         /\ \A k \in 1..n : k >= 2 => editors[k] = <<>>
         /\ accessList = [k \in 1..n |->
                           [_id |-> RecordIds[k], item |-> ItemIds[k],
                            owner |-> owners[k], editors |-> editors[k],
                            viewers |-> viewers[k]]]
  /\ nextId = Len(accessList)
  /\ created = [k \in 1..Len(accessList) |-> accessList[k].owner]
  /\ calls = [p \in Procs |-> Idle]
  /\ hist = <<>>
  /\ ncalls = 0
  /\ named = UNION {OwnerRoles(accessList[k]) : k \in DOMAIN accessList}
  /\ NoApp

\* the engine with the item field, two requests served one after the other
\* (removeAccess2_updateOne is no step of it either)
Next2Seq ==
  \/ \E owner \in Users, editors, viewers \in OptLists :
       InFlight = {} /\ Burst /\ addItem2_createOne(1, owner, editors, viewers)
  \/ addItem2_readOne(1)
  \/ \E item \in Items : InFlight = {} /\ Burst /\ deleteItem2(item)
  \/ \E _id \in IdArgs, user \in Users :
       InFlight = {} /\ Burst /\ setToViewer2_isViewer(1, _id, user)
  \/ setToViewer2_readOne(1)
  \/ setToViewer2_updateOne(1)
  \/ \E _id \in IdArgs, user \in Users :
       InFlight = {} /\ Burst /\ setToEditor2_isEditor(1, _id, user)
  \/ setToEditor2_readOne(1)
  \/ setToEditor2_updateOne(1)
  \/ \E itemId \in IdArgs, user \in Users :
       InFlight = {} /\ Burst /\ removeAccess2_readOne(1, itemId, user)
  \/ \E owner \in Users, user \in Users :
       InFlight = {} /\ Burst /\ setToViewerAllItems_getItemsByOwner(1, owner, user)
  \/ \E k \in 1..MaxRecords : setToViewerAllItems_updateOne(1, k)
  \/ setToViewerAllItems_updateOne_rejects(1)
  \/ \E owner \in Users, user \in Users :
       InFlight = {} /\ Burst /\ removeAccessAllItems_readMany(1, owner, user)
  \/ removeAccessAllItems_updateOne(1)
  \/ removeAccessAllItems_updateOne_rejects(1)

Spec2Seq == Init2Stored /\ [][Next2Seq]_vars

----------------------------------------------------------------------------
(* The routes of posts and friend requests, on the variant with the item   *)
(* field.  The router serves one request at a time.                        *)

\* an array that holds the elements of the set S
SeqOf(S) == CHOOSE s \in [1..Cardinality(S) -> S] : Range(s) = S

\* Friend.getFriends: the friends of the user u
Friend_getFriends(u) == {v \in Users : v # u /\ {u, v} \in friends}

\* Post.getPosts({ author: { $in: authors } })
Post_getPosts(authors) == SelectSeq(posts, LAMBDA post : post.author \in authors)

FriendRequestNotFoundError == "FriendRequestNotFoundError"
FriendRequestAlreadyExistsError == "FriendRequestAlreadyExistsError"

\* what an async function returns to its caller: a promise, whatever the
\* awaited call does later
Promise(outcome) == [type |-> "promise", settles |-> outcome]

\* the truth value JavaScript gives a value: an object, a pending or a
\* rejected promise included, counts as true
truthy(v) == IF v.type = "boolean" THEN v.value ELSE TRUE

\* Array.prototype.filter: it keeps, in order, the elements for which the
\* callback returns a value that counts as true; values[k] is what the
\* callback returns for s[k]
filter(s, values) ==
  LET kept[k \in 0..Len(s)] ==
        IF k = 0 THEN <<>>
        ELSE IF truthy(values[k]) THEN Append(kept[k - 1], s[k])
        ELSE kept[k - 1]
  IN kept[Len(s)]

\* the router takes a request when the one before is over
RouteFree ==
  /\ route.pc \in {"idle", "done"}
  /\ InFlight = {}
  /\ route.n < MaxRequests

\* a request that makes calls to the engine
Started(name, pc, user, other) ==
  [name |-> name, pc |-> pc, user |-> user, other |-> other, pre |-> accessList,
   res |-> <<>>, first |-> ncalls, n |-> route.n + 1]

\* a request that is over at once, with its response
Served(name, user, other, res) ==
  [name |-> name, pc |-> "done", user |-> user, other |-> other, pre |-> accessList,
   res |-> res, first |-> ncalls, n |-> route.n + 1]

\* the collections outlive the process: the application starts with no
\* post or with one post and the access record createPost made for it, and
\* with the friendships and pending requests of two users
InitRoutes ==
  /\ \/ friends = {} /\ requests \in SUBSET {<<u, v>> \in Users \X Users : u # v}
     \/ friends = {Users} /\ requests = {}
  /\ \/ posts = <<>>
     \/ \E author \in Users : posts = <<[_id |-> ItemIds[1], author |-> author]>>
  /\ accessList = [k \in DOMAIN posts |->
                     [_id |-> RecordIds[k], item |-> posts[k]._id,
                      owner |-> posts[k].author, editors |-> <<>>,
                      viewers |-> SeqOf(Friend_getFriends(posts[k].author))]]
  /\ nextId = Len(accessList)
  /\ created = [k \in 1..Len(accessList) |-> accessList[k].owner]
  /\ calls = [p \in Procs |-> Idle]
  /\ hist = <<>>
  /\ ncalls = 0
  /\ named = UNION {OwnerRoles(accessList[k]) : k \in DOMAIN accessList}
  /\ route = NoRoute

getAllPosts(u_id) ==
  /\ RouteFree
  /\ LET friendsOfUser == SeqOf(Friend_getFriends(u_id))
         allPosts == Post_getPosts(Range(friendsOfUser))
         filteredPosts ==
           filter(allPosts,
                  [k \in DOMAIN allPosts |->
                     Promise(canView(accessList, u_id, allPosts[k]._id))])
     IN route' = Served("getAllPosts", u_id, "none", Returned(filteredPosts))
  /\ UNCHANGED <<engine, posts, friends, requests>>

getPosts(u_id, author_id) ==
  /\ RouteFree
  /\ LET allPosts == Post_getPosts({author_id})
         filteredPosts ==
           filter(allPosts,
                  [k \in DOMAIN allPosts |->
                     Promise(canView(accessList, u_id, allPosts[k]._id))])
     IN route' = Served("getPosts", u_id, author_id, Returned(filteredPosts))
  /\ UNCHANGED <<engine, posts, friends, requests>>

\* createPost up to its call of addItem: Post.create stores the post
createPost_create(user) ==
  /\ RouteFree
  /\ ncalls < MaxCalls /\ nextId < MaxRecords
  /\ posts' = Append(posts, [_id |-> ItemIds[nextId + 1], author |-> user])
  /\ route' = Started("createPost", "addItem", user, "none")
  /\ UNCHANGED <<engine, friends, requests>>

\* createPost calls addItem(created.post._id, user, [], friends)
createPost_addItem ==
  /\ route.name = "createPost" /\ route.pc = "addItem"
  /\ InFlight = {} /\ ncalls = route.first
  /\ addItem2_createOne(1, route.user, <<<<>>>>,
                        <<SeqOf(Friend_getFriends(route.user))>>)

createPost_return ==
  /\ route.name = "createPost" /\ route.pc = "addItem"
  /\ InFlight = {} /\ ncalls = route.first + 1
  /\ route' = [route EXCEPT !.pc = "done", !.res = Returned("Post successfully created!")]
  /\ UNCHANGED <<engine, posts, friends, requests>>

\* Friend.sendRequest
sendFriendRequest(user, toId) ==
  /\ RouteFree
  /\ IF \/ user = toId
        \/ {user, toId} \in friends
        \/ <<user, toId>> \in requests
        \/ <<toId, user>> \in requests
       THEN /\ route' = Served("sendFriendRequest", user, toId,
                               Thrown(FriendRequestAlreadyExistsError))
            /\ UNCHANGED requests
       ELSE /\ route' = Served("sendFriendRequest", user, toId, Returned("Sent request!"))
            /\ requests' = requests \cup {<<user, toId>>}
  /\ UNCHANGED <<engine, posts, friends>>

\* acceptFriendRequest up to its first call of the engine; the route makes
\* two calls
acceptFriendRequest_getUserByUsername(user, fromId) ==
  /\ RouteFree
  /\ ncalls + 2 <= MaxCalls
  /\ route' = Started("acceptFriendRequest", "setToViewerAllItems", user, fromId)
  /\ UNCHANGED <<engine, posts, friends, requests>>

\* acceptFriendRequest calls setToViewerAllItems(fromId, user)
acceptFriendRequest_setToViewerAllItems_from ==
  /\ route.name = "acceptFriendRequest" /\ route.pc = "setToViewerAllItems"
  /\ InFlight = {} /\ ncalls = route.first
  /\ setToViewerAllItems_getItemsByOwner(1, route.other, route.user)

\* acceptFriendRequest calls setToViewerAllItems(user, fromId)
acceptFriendRequest_setToViewerAllItems_user ==
  /\ route.name = "acceptFriendRequest" /\ route.pc = "setToViewerAllItems"
  /\ InFlight = {} /\ ncalls = route.first + 1
  /\ setToViewerAllItems_getItemsByOwner(1, route.user, route.other)

\* acceptFriendRequest calls Friend.acceptRequest(fromId, user) last: it
\* throws when no request from fromId to user is pending
acceptFriendRequest_acceptRequest ==
  /\ route.name = "acceptFriendRequest" /\ route.pc = "setToViewerAllItems"
  /\ InFlight = {} /\ ncalls = route.first + 2
  /\ IF <<route.other, route.user>> \in requests
       THEN /\ requests' = requests \ {<<route.other, route.user>>}
            /\ friends' = friends \cup {{route.other, route.user}}
            /\ route' = [route EXCEPT !.pc = "done",
                                      !.res = Returned("Accepted request!")]
       ELSE /\ UNCHANGED <<requests, friends>>
            /\ route' = [route EXCEPT !.pc = "done",
                                      !.res = Thrown(FriendRequestNotFoundError)]
  /\ UNCHANGED <<engine, posts>>

NextRoutes ==
  \/ \E u_id \in Users : getAllPosts(u_id)
  \/ \E u_id \in Users, author_id \in Users : getPosts(u_id, author_id)
  \/ \E user \in Users : createPost_create(user)
  \/ createPost_addItem
  \/ addItem2_readOne(1)
  \/ createPost_return
  \/ \E user \in Users, toId \in Users : sendFriendRequest(user, toId)
  \/ \E user \in Users, fromId \in Users :
       acceptFriendRequest_getUserByUsername(user, fromId)
  \/ acceptFriendRequest_setToViewerAllItems_from
  \/ \E k \in 1..MaxRecords : setToViewerAllItems_updateOne(1, k)
  \/ acceptFriendRequest_setToViewerAllItems_user
  \/ acceptFriendRequest_acceptRequest

SpecRoutes == InitRoutes /\ [][NextRoutes]_vars

----------------------------------------------------------------------------
(* Vocabulary of the properties                                            *)

\* the call that returned last, and the one that returned before it
Last == hist[Len(hist)]
Prev == hist[Len(hist) - 1]

\* no handler is in flight: the store is as the last call left it
Quiet == InFlight = {}

Exists(coll, _id) == \E k \in DOMAIN coll : coll[k]._id = _id

Rec(coll, _id) == coll[CHOOSE k \in DOMAIN coll : coll[k]._id = _id]

\* the collection without the record _id
Without(coll, _id) == SelectSeq(coll, LAMBDA d : d._id # _id)

HoldsRole(coll, _id, user) ==
  /\ Exists(coll, _id)
  /\ user \in Range(Rec(coll, _id).viewers) \cup Range(Rec(coll, _id).editors)

----------------------------------------------------------------------------
(* Properties                                                              *)

\* C1: for every record that addItem created with owner u and that has not
\* been deleted, isOwner(u, i) succeeds and isOwner(v, i) fails with the
\* not-owner error for every other user v, whatever calls have run on i.
C1_OwnerCheck ==
  \A n \in 1..Len(created) :
    Exists(accessList, RecordIds[n]) =>
      \A v \in Users :
        isOwner(accessList, v, RecordIds[n]) =
          IF v = created[n] THEN Ok ELSE ItemOwnerNotMatchError

\* a removeAccess has removed a role from a record that still exists
C1_Witness ==
  /\ hist # <<>>
  /\ Last.op = "removeAccess"
  /\ Last.res = Returned("Viewers successfully updated!")
  /\ Exists(accessList, Last._id)
  /\ \E k \in DOMAIN hist : hist[k].op = "setToEditor" /\ hist[k]._id = Last._id

\* C2: two setToViewer calls for different users, both started on the same
\* store in which the record has no viewers, leave both users in viewers once
\* both have returned.
C2_NoLostUpdate ==
  \A a, b \in DOMAIN hist :
    ( /\ a < b
      /\ hist[a].op = "setToViewer" /\ hist[b].op = "setToViewer"
      /\ hist[a]._id = hist[b]._id
      /\ hist[a].user # hist[b].user
      /\ hist[a].pre = hist[b].pre
      /\ Exists(hist[a].pre, hist[a]._id)
      /\ Rec(hist[a].pre, hist[a]._id).viewers = <<>>
      /\ Exists(accessList, hist[a]._id) )
    => Range(Rec(accessList, hist[a]._id).viewers) = {hist[a].user, hist[b].user}

\* C3: canView(u, i) throws NotFound when no record exists for the item i,
\* succeeds when u is the owner, a viewer or an editor in the record of i,
\* and throws the access-denied error otherwise; for a user who is only a
\* viewer canView succeeds while isEditor throws the not-editor error.
C3_CanViewUnion ==
  \A u \in Users, i \in Items :
    LET recs == {k \in DOMAIN accessList : accessList[k].item = i} IN
    /\ recs = {} => canView(accessList, u, i) = NotFoundError
    /\ \A k \in recs :
         LET d == accessList[k] IN
         /\ canView(accessList, u, i) =
              IF u = d.owner \/ u \in Range(d.viewers) \/ u \in Range(d.editors)
                THEN Ok ELSE AccessRestrictedError
         /\ (u # d.owner /\ u \in Range(d.viewers) /\ u \notin Range(d.editors))
              => isEditor2(accessList, u, i) = ItemEditorNotMatchError

\* C4: isViewer and isEditor are exact membership tests: NotFound without a
\* record, success iff the user is in the role list, the role's own error
\* otherwise; the owner gets no pass.
C4_StrictChecks ==
  \A u \in Users, i \in Ids :
    /\ isViewer(accessList, u, i) =
         IF ~Exists(accessList, i) THEN NotFoundError
         ELSE IF u \in Range(Rec(accessList, i).viewers) THEN Ok
         ELSE ItemViewerNotMatchError
    /\ isEditor(accessList, u, i) =
         IF ~Exists(accessList, i) THEN NotFoundError
         ELSE IF u \in Range(Rec(accessList, i).editors) THEN Ok
         ELSE ItemEditorNotMatchError

\* setToViewer has found, by isViewer, that the user is a viewer of a record
\* whose owner holds no role, so that isViewer fails for the owner; and some
\* id has no record
C4_Witness ==
  /\ hist # <<>>
  /\ Last.op = "setToViewer"
  /\ Last.res = Returned("is already a viewer of")
  /\ Exists(accessList, Last._id)
  /\ ~HoldsRole(accessList, Last._id, Rec(accessList, Last._id).owner)
  /\ isViewer(accessList, Rec(accessList, Last._id).owner, Last._id)
       = ItemViewerNotMatchError
  /\ isViewer(accessList, Last.user, Last._id) = Ok
  /\ \E i \in Ids : isEditor(accessList, Last.user, i) = NotFoundError

\* C5: a second setToViewer(i, u) right after a first one that succeeded
\* returns the "already a viewer" confirmation, writes nothing, and leaves u
\* in viewers exactly once; the same for setToEditor and editors.
C5_Idempotent ==
  ( /\ Len(hist) >= 2
    /\ Quiet
    /\ Last.op \in {"setToViewer", "setToEditor"}
    /\ Prev.op = Last.op /\ Prev._id = Last._id /\ Prev.user = Last.user
    /\ Prev.res.kind = "return" )
  => /\ Last.res = Returned(IF Last.op = "setToViewer"
                              THEN "is already a viewer of"
                              ELSE "is already an editor of")
     /\ accessList = Last.pre
     /\ Exists(accessList, Last._id)
     /\ Count(IF Last.op = "setToViewer" THEN Rec(accessList, Last._id).viewers
                                         ELSE Rec(accessList, Last._id).editors,
              Last.user) = 1

\* setToViewer has added a user, and the same call has been made again
C5_Witness ==
  /\ Len(hist) >= 2
  /\ Quiet
  /\ Last.op = "setToViewer"
  /\ Prev.op = Last.op /\ Prev._id = Last._id /\ Prev.user = Last.user
  /\ Prev.res = Returned("Viewers successfully updated!")

\* C6 as stated: for a user who is not an editor of an existing record,
\* setToEditor followed by removeAccess restores the editors and the viewers.
C6_RoundTrip_AnyNonEditor ==
  ( /\ Len(hist) >= 2
    /\ Quiet
    /\ Prev.op = "setToEditor" /\ Last.op = "removeAccess"
    /\ Prev._id = Last._id /\ Prev.user = Last.user
    /\ Exists(Prev.pre, Prev._id)
    /\ Prev.user \notin Range(Rec(Prev.pre, Prev._id).editors) )
  => /\ Exists(accessList, Last._id)
     /\ Last.user \notin Range(Rec(accessList, Last._id).editors)
     /\ Rec(accessList, Last._id).editors = Rec(Prev.pre, Prev._id).editors
     /\ Rec(accessList, Last._id).viewers = Rec(Prev.pre, Prev._id).viewers

\* C6 amended: for a user who is neither an editor nor a viewer of an
\* existing record, setToEditor followed by removeAccess restores the store.
C6_RoundTrip ==
  ( /\ Len(hist) >= 2
    /\ Quiet
    /\ Prev.op = "setToEditor" /\ Last.op = "removeAccess"
    /\ Prev._id = Last._id /\ Prev.user = Last.user
    /\ Exists(Prev.pre, Prev._id)
    /\ ~HoldsRole(Prev.pre, Prev._id, Prev.user) )
  => /\ Last.user \notin Range(Rec(accessList, Last._id).editors)
     /\ accessList = Prev.pre

\* setToEditor has made a user with no role an editor of a record that has
\* another editor, and removeAccess has run for that user
C6_Witness ==
  /\ Len(hist) >= 2
  /\ Quiet
  /\ Prev.op = "setToEditor" /\ Last.op = "removeAccess"
  /\ Prev._id = Last._id /\ Prev.user = Last.user
  /\ Prev.res = Returned("Editors successfully updated!")
  /\ ~HoldsRole(Prev.pre, Prev._id, Prev.user)
  /\ Rec(Prev.pre, Prev._id).editors # <<>>

\* C7: deleteItem never throws; when it has returned, the store is the one
\* before the call without the record i, and isOwner(u, i) throws NotFound.
C7_DeleteItem ==
  /\ \A k \in DOMAIN hist :
       hist[k].op = "deleteItem" =>
         hist[k].res = Returned("Item deleted successfully!")
  /\ (hist # <<>> /\ Quiet /\ Last.op = "deleteItem") =>
       /\ accessList = Without(Last.pre, Last._id)
       /\ \A u \in Users : isOwner(accessList, u, Last._id) = NotFoundError

\* deleteItem has removed one of two records
C7_Witness ==
  /\ hist # <<>> /\ Quiet /\ Last.op = "deleteItem"
  /\ Exists(Last.pre, Last._id)
  /\ Len(Last.pre) = 2
  /\ Last.pre[2]._id = Last._id

\* deleteItem has run on an id that has no record
C7_WitnessAbsent ==
  /\ hist # <<>> /\ Quiet /\ Last.op = "deleteItem"
  /\ ~Exists(Last.pre, Last._id)
  /\ Last.pre # <<>>

\* C8: removeAccess for a user who holds no role on i (the owner included,
\* a missing record included) returns the "already restricted" confirmation
\* and leaves the store as it was; removeAccess never changes an owner.
C8_RemoveNothing ==
  (hist # <<>> /\ Quiet /\ Last.op = "removeAccess") =>
    /\ ~HoldsRole(Last.pre, Last._id, Last.user) =>
         /\ Last.res = Returned("is already restricted from seeing")
         /\ accessList = Last.pre
    /\ Len(accessList) = Len(Last.pre)
    /\ \A k \in DOMAIN accessList :
         /\ accessList[k]._id = Last.pre[k]._id
         /\ accessList[k].owner = Last.pre[k].owner

\* removeAccess has run for the owner of a record in which the owner holds no
\* role while another user does
C8_Witness ==
  /\ hist # <<>> /\ Quiet /\ Last.op = "removeAccess"
  /\ Exists(Last.pre, Last._id)
  /\ Rec(Last.pre, Last._id).owner = Last.user
  /\ ~HoldsRole(Last.pre, Last._id, Last.user)
  /\ Rec(Last.pre, Last._id).viewers # <<>>

\* C9: setToViewer and setToEditor on an id without a record throw NotFound
\* and leave the store as it was.
C9_GrantNotFound ==
  ( /\ hist # <<>> /\ Quiet
    /\ Last.op \in {"setToViewer", "setToEditor"}
    /\ ~Exists(Last.pre, Last._id) )
  => /\ Last.res = Thrown(NotFoundError)
     /\ accessList = Last.pre

\* setToViewer has run on an id without a record while another record exists
C9_Witness ==
  /\ hist # <<>> /\ Quiet
  /\ Last.op = "setToViewer"
  /\ ~Exists(Last.pre, Last._id)
  /\ Last.pre # <<>>
  /\ Last.res = Thrown(NotFoundError)

C11_NoDuplicates ==
  \A k \in DOMAIN accessList :
    NoDups(accessList[k].viewers) /\ NoDups(accessList[k].editors)

\* the users other than u are listed in new as often as in old
OthersKept(old, new, u) ==
  \A v \in Users \ {u} : Count(old, v) = Count(new, v)

\* C13: the write of setToViewer(i, u), setToEditor(i, u) or removeAccess(i, u)
\* changes one role list of the record i and nothing else: every other record,
\* the owner of i and the membership of every user other than u stay as they
\* were; setToViewer leaves the editors alone and puts u into the viewers,
\* setToEditor leaves the viewers alone and puts u into the editors,
\* removeAccess changes one of the two lists only.
C13_Frame ==
  [][\A p \in Procs :
       ( /\ calls[p].op \in {"setToViewer", "setToEditor", "removeAccess"}
         /\ calls[p].pc = "updateOne"
         /\ calls'[p].pc = "idle" )
       => /\ Without(accessList', calls[p]._id) = Without(accessList, calls[p]._id)
          /\ Exists(accessList', calls[p]._id) <=> Exists(accessList, calls[p]._id)
          /\ Exists(accessList, calls[p]._id) =>
               LET old == Rec(accessList, calls[p]._id)
                   new == Rec(accessList', calls[p]._id)
                   u == calls[p].user
               IN /\ new.owner = old.owner
                  /\ OthersKept(old.viewers, new.viewers, u)
                  /\ OthersKept(old.editors, new.editors, u)
                  /\ calls[p].op = "setToViewer" =>
                       new.editors = old.editors /\ u \in Range(new.viewers)
                  /\ calls[p].op = "setToEditor" =>
                       new.viewers = old.viewers /\ u \in Range(new.editors)
                  /\ calls[p].op = "removeAccess" =>
                       new.viewers = old.viewers \/ new.editors = old.editors
    ]_vars

\* C14: when removeAccess(i, u2) for a viewer u2 of i and setToViewer(i, u1)
\* for another user u1 have both started on the same store and both returned,
\* u2 is not a viewer of i and u1 is.
C14_RevokeKept ==
  \A a, b \in DOMAIN hist :
    ( /\ hist[a].op = "removeAccess" /\ hist[b].op = "setToViewer"
      /\ hist[a]._id = hist[b]._id
      /\ hist[a].user # hist[b].user
      /\ hist[a].pre = hist[b].pre
      /\ Exists(hist[a].pre, hist[a]._id)
      /\ hist[a].user \in Range(Rec(hist[a].pre, hist[a]._id).viewers)
      /\ Exists(accessList, hist[a]._id) )
    => /\ hist[a].user \notin Range(Rec(accessList, hist[a]._id).viewers)
       /\ hist[b].user \in Range(Rec(accessList, hist[a]._id).viewers)

\* C15: when removeAccess(i, u) has returned and no other call has run
\* meanwhile, u is neither a viewer nor an editor of i, and isViewer(u, i)
\* and isEditor(u, i) both fail.
C15_NoRoleLeft ==
  (hist # <<>> /\ Quiet /\ Last.op = "removeAccess") =>
    /\ ~HoldsRole(accessList, Last._id, Last.user)
    /\ isViewer(accessList, Last.user, Last._id) # Ok
    /\ isEditor(accessList, Last.user, Last._id) # Ok

\* the list s with u put at its end unless s holds u already
Granted(s, u) == IF u \in Range(s) THEN s ELSE push(s, u)

\* C16: when setToViewer(i, u1) and setToEditor(i, u2) have both started on
\* the same store, in which the record i exists, and both returned, the
\* viewers of i are those of before with u1 granted and the editors of i
\* are those of before with u2 granted.
C16_Independent ==
  \A a, b \in DOMAIN hist :
    ( /\ hist[a].op = "setToViewer" /\ hist[b].op = "setToEditor"
      /\ hist[a]._id = hist[b]._id
      /\ hist[a].pre = hist[b].pre
      /\ Exists(hist[a].pre, hist[a]._id) )
    => /\ Exists(accessList, hist[a]._id)
       /\ Rec(accessList, hist[a]._id).viewers =
            Granted(Rec(hist[a].pre, hist[a]._id).viewers, hist[a].user)
       /\ Rec(accessList, hist[a]._id).editors =
            Granted(Rec(hist[a].pre, hist[a]._id).editors, hist[b].user)

\* setToViewer and setToEditor have overlapped on a record that had a viewer
\* and an editor, the setToEditor has written first, and both have written
C16_Witness ==
  /\ Len(hist) >= 2
  /\ Quiet
  /\ Prev.op = "setToEditor" /\ Last.op = "setToViewer"
  /\ Prev._id = Last._id
  /\ Prev.pre = Last.pre
  /\ Exists(Last.pre, Last._id)
  /\ Rec(Last.pre, Last._id).viewers # <<>>
  /\ Rec(Last.pre, Last._id).editors # <<>>
  /\ Prev.res = Returned("Editors successfully updated!")
  /\ Last.res = Returned("Viewers successfully updated!")

\* C20: once deleteItem(i) has deleted the record i, the store holds no
\* record i, whatever the calls that had read the record write afterwards,
\* and isOwner, isViewer and isEditor on i throw NotFound.
C20_NoResurrection ==
  \A k \in DOMAIN hist :
    (hist[k].op = "deleteItem" /\ Exists(hist[k].pre, hist[k]._id)) =>
      /\ ~Exists(accessList, hist[k]._id)
      /\ \A u \in Users :
           /\ isOwner(accessList, u, hist[k]._id) = NotFoundError
           /\ isViewer(accessList, u, hist[k]._id) = NotFoundError
           /\ isEditor(accessList, u, hist[k]._id) = NotFoundError

\* setToViewer had read the record when deleteItem deleted it, and has
\* written its viewers afterwards
C20_Witness ==
  /\ Len(hist) >= 2
  /\ Quiet
  /\ Prev.op = "deleteItem" /\ Last.op = "setToViewer"
  /\ Prev._id = Last._id
  /\ Exists(Prev.pre, Prev._id)
  /\ Last.res = Returned("Viewers successfully updated!")

PartlyGranted(pre, o, u, left) ==
  /\ Len(accessList) = Len(pre)
  /\ \A k \in DOMAIN pre :
       accessList[k] =
         IF /\ pre[k].owner = o
            /\ u \notin Range(pre[k].viewers)
            /\ \A j \in DOMAIN left : left[j]._id # pre[k]._id
           THEN [pre[k] EXCEPT !.viewers = push(@, u)]
           ELSE pre[k]

\* C17: setToViewerAllItems is not atomic: while it runs, and after it has
\* stopped on a failing update, the records it has updated list the user as
\* a viewer and the records it had yet to update are as they were; nothing
\* undoes the updates made.
C17_NotAtomic ==
  /\ \A p \in InFlight :
       calls[p].op = "setToViewerAllItems" =>
         PartlyGranted(calls[p].pre, calls[p]._id, calls[p].user, calls[p].item)
  /\ ( /\ hist # <<>> /\ Quiet
       /\ Last.op = "setToViewerAllItems"
       /\ Last.res = Thrown(StoreError) )
     => PartlyGranted(Last.pre, Last._id, Last.user, Last.item)

\* setToViewerAllItems has stopped on a failing update after it had updated
\* one of two records of the owner: the user is a viewer of one record of
\* the owner and not of the other
C17_Witness ==
  /\ hist # <<>> /\ Quiet
  /\ Last.op = "setToViewerAllItems"
  /\ Last.res = Thrown(StoreError)
  /\ Len(Last.item) = 1
  /\ \E j, k \in DOMAIN accessList :
       /\ accessList[j].owner = Last._id /\ accessList[k].owner = Last._id
       /\ Last.user \notin Range(Last.pre[j].viewers)
       /\ Last.user \in Range(accessList[j].viewers)
       /\ Last.user \notin Range(accessList[k].viewers)

\* C18: a record lists its owner as an editor or as a viewer only if some
\* call has named the owner for that role of that record: addItem in its
\* initial lists, setToViewer or setToEditor as its user, or
\* setToViewerAllItems as its user for the records of that owner.
C18_OwnerNamed ==
  \A k \in DOMAIN accessList : OwnerRoles(accessList[k]) \subseteq named

\* setToViewerAllItems has made a user a viewer of a record of another
\* owner, and the owner of that record holds no role
C18_Witness ==
  /\ hist # <<>>
  /\ Last.op = "setToViewerAllItems"
  /\ Last.res.kind = "return"
  /\ Last.user # Last._id
  /\ \E k \in DOMAIN accessList :
       /\ accessList[k].owner = Last._id
       /\ Last.user \in Range(accessList[k].viewers)
       /\ OwnerRoles(accessList[k]) = {}

\* setToViewerAllItems has made an owner a viewer of the owner's own record
C18_WitnessOwner ==
  /\ hist # <<>>
  /\ Last.op = "setToViewerAllItems"
  /\ Last.res.kind = "return"
  /\ Last.user = Last._id
  /\ \E k \in DOMAIN accessList :
       /\ accessList[k].owner = Last._id
       /\ OwnerRoles(accessList[k]) = {<<accessList[k]._id, "viewers", Last.user>>}

\* C19: when removeAccessAllItems(o, u) has returned and no other call has
\* run meanwhile, u is neither a viewer nor an editor of any record of the
\* owner o, every other user is listed as before, and the records of other
\* owners are as they were.
C19_BulkRevoke ==
  ( /\ hist # <<>> /\ Quiet
    /\ Last.op = "removeAccessAllItems"
    /\ Last.res.kind = "return" )
  => /\ Len(accessList) = Len(Last.pre)
     /\ \A k \in DOMAIN accessList :
          LET old == Last.pre[k]
              new == accessList[k]
          IN /\ old.owner # Last._id => new = old
             /\ old.owner = Last._id =>
                  /\ Last.user \notin Range(new.viewers) \cup Range(new.editors)
                  /\ OthersKept(old.viewers, new.viewers, Last.user)
                  /\ OthersKept(old.editors, new.editors, Last.user)

\* the records of the collection coll that belong to the item i
OfItem(coll, i) == {k \in DOMAIN coll : coll[k].item = i}

\* C21: in the variant with the item field every handler finds the record
\* of the item it is given: setToViewer(i, u) on an item that has a record
\* returns and leaves u a viewer of that record; for a viewer u of the
\* record of i isViewer(u, i) succeeds and, unless u is an editor too,
\* isEditor(u, i) throws the not-editor error; removeAccess(i, u) for a
\* viewer u of the record of i leaves u no viewer of it.
C21_ItemLookup ==
  /\ \A k \in DOMAIN hist :
       (hist[k].op = "setToViewer" /\ OfItem(hist[k].pre, hist[k]._id) # {})
         => hist[k].res.kind = "return"
  /\ (hist # <<>> /\ Quiet /\ Last.op = "setToViewer") =>
       \A k \in OfItem(accessList, Last._id) :
         Last.user \in Range(accessList[k].viewers)
  /\ \A k \in DOMAIN accessList : \A u \in Range(accessList[k].viewers) :
       /\ isViewer2(accessList, u, accessList[k].item) = Ok
       /\ u \notin Range(accessList[k].editors) =>
            isEditor2(accessList, u, accessList[k].item) = ItemEditorNotMatchError
  /\ (hist # <<>> /\ Quiet /\ Last.op = "removeAccess") =>
       \A k \in OfItem(accessList, Last._id) :
         Last.user \notin Range(accessList[k].viewers)

\* C22: every post that getAllPosts or getPosts has returned is a post for
\* which canView succeeds for the requesting user.
C22_OnlyViewable ==
  ( /\ route.pc = "done"
    /\ route.name \in {"getAllPosts", "getPosts"}
    /\ route.res.kind = "return" )
  => \A k \in DOMAIN route.res.msg :
       canView(accessList, route.user, route.res.msg[k]._id) = Ok

\* C23: when acceptFriendRequest has failed, the access records are those
\* of before the request.
C23_GrantOnlyOnAccept ==
  ( /\ route.pc = "done"
    /\ route.name = "acceptFriendRequest"
    /\ route.res.kind = "throw" )
  => accessList = route.pre

====
